---- MODULE Spec2Model ----
(***************************************************************************)
(* MicroDSP, "5. WaveformVideo/waveform_video.cpp": main reads a RIFF/WAVE *)
(* file with readWav and muxes a RIFF/AVI file with writeAvi.              *)
(*                                                                         *)
(* The input file is a sequence of bytes, the output file a sequence of    *)
(* written items with their byte offsets.  Stream offsets pass 2^31, so a  *)
(* std::streampos / std::uint32_t is kept as two 16-bit limbs ("wide").    *)
(*                                                                         *)
(* Spec is that program; SpecDraw follows drawPixel on its own, SpecRender *)
(* the program with the frame buffer followed byte by byte.  SpecDelay is  *)
(* "5. CircularBuffers/circular_buffers.cpp", the circular-buffer delay.   *)
(***************************************************************************)
EXTENDS Integers, Sequences, FiniteSets, TLC

VARIABLES
    argc,           \* main: number of command-line words
    desc,           \* the description the input file was built from (never changes)
    file,           \* the bytes of the input file argv[1]
    diskCap,        \* bytes the output device can hold (never changes)
    pc,             \* position in main / readWav / writeAvi
    exitCode,       \* main's return value, -1 while running
    error,          \* which exception main caught ("none" if none)
    in,             \* readWav: std::ifstream in
    fmtFound, dataFound, sampleRate, channels, bitsPerSample, samples,
    chunkSize,      \* readWav: chunkSize of the chunk being processed
    raw,            \* readWav: std::vector<int16_t> raw of the data chunk
    i,              \* readWav: index of the frame loop over raw
    shortRead,      \* history: an integer or payload read delivered fewer bytes than asked
    wav,            \* main: WavData wav
    out,            \* writeAvi: std::ofstream out and the file behind it
    frameCount, riffSizePos, moviSizePos, moviDataStart, frameOffsets,
    frameIndex, moviEnd,
    idxI,           \* writeAvi: i of the idx1 loop
    frame,          \* drawPixel: the bytes of the buffer it is handed that are not 0
    request,        \* drawPixel: the arguments of its last call
    before,         \* history: frame as it was when that call began
    header,         \* circular_buffers main: WavHeader header, and the bytes of data in the file
    input, output, delaySamples, maxDelaySamples, delayBuffer, writeIndex,
    stepN,          \* circular_buffers main: n of the processing loop
    readIndex,      \* circular_buffers main: readIndex of the last turn
    delayed         \* circular_buffers main: d of the last turn

vars == <<argc, desc, file, diskCap, pc, exitCode, error, in, fmtFound, dataFound,
          sampleRate, channels, bitsPerSample, samples, chunkSize, raw, i,
          shortRead, wav, out, frameCount, riffSizePos, moviSizePos,
          moviDataStart, frameOffsets, frameIndex, moviEnd, idxI,
          frame, request, before, header, input, output, delaySamples,
          maxDelaySamples, delayBuffer, writeIndex, stepN, readIndex, delayed>>

readVars == <<in, fmtFound, dataFound, sampleRate, channels, bitsPerSample,
              samples, chunkSize, raw, i, shortRead>>

writeVars == <<out, frameCount, riffSizePos, moviSizePos, moviDataStart,
               frameOffsets, frameIndex, moviEnd, idxI>>

inputVars == <<argc, desc, file, diskCap>>

drawVars == <<frame, request, before>>

delayVars == <<header, input, output, delaySamples, maxDelaySamples, delayBuffer,
               writeIndex, stepN, readIndex, delayed>>

(***************************************************************************)
(* Bounds of the model.                                                    *)
(***************************************************************************)
\* channel counts 0..MaxChannels are declared by the generated fmt chunks
MaxChannels == 2
\* data chunks of 0..MaxDataBytes bytes
MaxDataBytes == 8
\* unknown chunks of 0..MaxListBytes bytes
MaxListBytes == 3
\* the heap holds a vector of at most MaxSamples elements; a larger one throws bad_alloc
MaxSamples == 60
\* samples of the one long recording (1 Hz: 30 frames a sample)
LongSamples == 52
\* circular_buffers: sample rates 0..MaxDelayRate in the header
MaxDelayRate == 9
\* circular_buffers: recordings of 0..MaxInput samples
MaxInput == 12

(***************************************************************************)
(* Program constants of writeAvi.                                          *)
(***************************************************************************)
width == 1280
height == 720
fps == 30
bytesPerPixel == 3
rowStride == ((width * bytesPerPixel + 3) \div 4) * 4
frameDataSize == rowStride * height

(***************************************************************************)
(* Wide integers: [hi, lo] stands for hi * 2^16 + lo, 0 <= lo < 2^16.      *)
(* hi is negative for a negative number (pos_type(-1) is [-1, 65535]).     *)
(***************************************************************************)
Limb == 256 * 256

W(n) == [hi |-> n \div Limb, lo |-> n % Limb]

WAdd(a, n) ==
    LET s == a.lo + n
    IN  [hi |-> a.hi + (s \div Limb), lo |-> s % Limb]

WSub(a, b) ==
    LET d == a.lo - b.lo
    IN  [hi |-> (a.hi - b.hi) + (d \div Limb), lo |-> d % Limb]

WLess(a, b) == a.hi < b.hi \/ (a.hi = b.hi /\ a.lo < b.lo)

WMax(a, b) == IF WLess(a, b) THEN b ELSE a

\* static_cast<std::uint32_t>(x): the low 32 bits
toUint32(a) == [hi |-> a.hi % Limb, lo |-> a.lo]

(***************************************************************************)
(* The input file.  A description d fixes the chunks; Encode(d) is the     *)
(* byte sequence of the file, cut after d.cut bytes when d.cut >= 0.       *)
(***************************************************************************)
RIFF == <<82, 73, 70, 70>>
WAVE == <<87, 65, 86, 69>>
FMT  == <<102, 109, 116, 32>>
DATA == <<100, 97, 116, 97>>
LIST == <<76, 73, 83, 84>>

LE16(v) == <<v % 256, (v \div 256) % 256>>

LE32(v) == <<v % 256, (v \div 256) % 256, (v \div 65536) % 256, (v \div 16777216) % 256>>

\* a signed 16-bit sample as two's complement, little-endian
SampleBytes(v) == LE16(v % 65536)

RECURSIVE PcmBytes(_)
PcmBytes(pcm) ==
    IF pcm = <<>> THEN <<>> ELSE SampleBytes(Head(pcm)) \o PcmBytes(Tail(pcm))

Fill(n, b) == [k \in 1..n |-> b]

Pad(n) == IF n % 2 = 1 THEN <<0>> ELSE <<>>

FmtChunk(d) ==
    FMT \o LE32(16 + d.extra) \o LE16(d.af) \o LE16(d.channels) \o LE32(d.rate)
        \o LE32(d.rate * d.channels * 2) \o LE16(d.channels * 2) \o LE16(d.bits)
        \o Fill(d.extra, 0) \o Pad(d.extra)

\* the payload: the samples d.pcm, and for an odd dataLen one byte more
DataPayload(d) == SubSeq(PcmBytes(d.pcm) \o <<9>>, 1, d.dataLen)

DataChunk(d) == DATA \o LE32(d.dataLen) \o DataPayload(d) \o Pad(d.dataLen)

ListChunk(d) == LIST \o LE32(d.listLen) \o Fill(d.listLen, 7) \o Pad(d.listLen)

ChunkBytes(d, kind) ==
    IF kind = "fmt" THEN FmtChunk(d)
    ELSE IF kind = "data" THEN DataChunk(d)
    ELSE ListChunk(d)

RECURSIVE Chunks(_, _)
Chunks(d, order) ==
    IF order = <<>> THEN <<>>
    ELSE ChunkBytes(d, Head(order)) \o Chunks(d, Tail(order))

\* four bytes that are not the tag: its last letter is another one
Not(tag) == [tag EXCEPT ![4] = 88]

Encode(d) ==
    LET body == (IF d.magic = "wave" THEN Not(WAVE) ELSE WAVE) \o Chunks(d, d.order)
        full == (IF d.magic = "riff" THEN Not(RIFF) ELSE RIFF) \o LE32(Len(body)) \o body
    IN  IF d.cut < 0 THEN full ELSE SubSeq(full, 1, d.cut)

\* sample values the generated data chunks are filled with, in this order
Pool == <<10000, -10000, 32767, 32767, -32768, -1, 0, 1>>

PoolPcm(start, n) == [k \in 1..n |-> Pool[((start + k - 1) % Len(Pool)) + 1]]

Orders ==
    { <<"fmt", "data">>, <<"data", "fmt">>, <<"fmt", "LIST", "data">>,
      <<"LIST", "fmt", "data">>, <<"fmt", "data", "LIST">>, <<"fmt">>,
      <<"data">>, <<>> }

SampleRates == {11, 30, 45}

Desc(order, af, ch, rate, bits, extra, start, dataLen, listLen, cut) ==
    [order |-> order, af |-> af, channels |-> ch, rate |-> rate, bits |-> bits,
     extra |-> extra, pcm |-> PoolPcm(start, (dataLen + 1) \div 2), start |-> start,
     dataLen |-> dataLen, listLen |-> listLen, cut |-> cut, magic |-> "ok"]

\* 16-bit PCM files: every chunk order, channel count, rate and data length
PcmDescs ==
    { Desc(o, 1, ch, r, 16, 0, st, n, l, -1) :
        o \in Orders, ch \in 0..MaxChannels, r \in SampleRates,
        st \in {0, 2}, n \in 0..MaxDataBytes, l \in {MaxListBytes - 1, MaxListBytes} }

\* other fmt chunks: not PCM, not 16 bits, extra fmt bytes, unknown chunks of every length
FormatDescs ==
    { Desc(<<"fmt", "data">>, f[1], 1, 30, f[2], f[3], 0, 4, 0, -1) :
        f \in { <<3, 16, 0>>, <<1, 8, 0>>, <<1, 16, 2>>, <<1, 16, 3>>, <<3, 8, 2>> } }
    \cup
    { Desc(<<"fmt", "LIST", "data">>, 1, 2, 30, 16, 0, 0, 8, l, -1) : l \in 0..MaxListBytes }

\* one file cut short after every number of bytes
CutBase == Desc(<<"fmt", "data">>, 1, 1, 30, 16, 0, 0, 4, 0, -1)

CutDescs == { [CutBase EXCEPT !.cut = c] : c \in 0..(Len(Encode(CutBase)) - 1) }

\* files that do not start with "RIFF", or do not go on with "WAVE"
MagicDescs == { [CutBase EXCEPT !.magic = m] : m \in {"riff", "wave"} }

\* fmt chunks that declare a sample rate of 0, with and without samples
ZeroRateDescs == { Desc(<<"fmt", "data">>, 1, 1, 0, 16, 0, 0, n, 0, -1) : n \in {0, 2} }

\* recordings whose frame count needs care: 11 samples at 11 Hz and at 22 Hz,
\* and LongSamples samples at 1 Hz, whose frames pass 2^32 bytes
LongDescs ==
    { Desc(<<"fmt", "data">>, 1, 1, 11, 16, 0, 0, 22, 0, -1),
      Desc(<<"fmt", "data">>, 1, 1, 22, 16, 0, 0, 22, 0, -1),
      Desc(<<"fmt", "data">>, 1, 1, 1, 16, 0, 0, 2 * LongSamples, 0, -1) }

Descs == PcmDescs \cup FormatDescs \cup CutDescs \cup MagicDescs \cup ZeroRateDescs
            \cup LongDescs

\* the output device: room for everything, or full after so many bytes
Unlimited == [hi |-> 32767 * 32767, lo |-> 0]

FullDisks == { W(100), W(1000000), W(220 + (8 + frameDataSize) + 6), W(3 * frameDataSize) }

FullDiskDescs ==
    { Desc(<<"fmt", "data">>, 1, 1, 30, 16, 0, 0, n, 0, -1) : n \in {2, 4} }

(***************************************************************************)
(* std::ifstream over file.  s = [pos, fail, eof].                         *)
(***************************************************************************)
Min(a, b) == IF a < b THEN a ELSE b

Max(a, b) == IF a < b THEN b ELSE a

\* bytes a read of n bytes delivers (in.gcount())
Avail(s, n) ==
    IF s.fail \/ s.eof THEN 0 ELSE Min(n, Max(0, Len(file) - s.pos))

Short(s, n) == Avail(s, n) < n

\* the stream after in.read(buf, n)
AfterRead(s, n) ==
    IF s.fail \/ s.eof THEN [s EXCEPT !.fail = TRUE]
    ELSE IF Avail(s, n) = n THEN [s EXCEPT !.pos = s.pos + n]
    ELSE [s EXCEPT !.pos = Max(s.pos, Len(file)), !.eof = TRUE, !.fail = TRUE]

\* the buffer after in.read(buf, n) into an uninitialised buf: the bytes the
\* read delivered, then what the buffer held before; of that, the first byte
\* is g and the others are 0
Bytes(s, n, g) ==
    [k \in 1..n |->
        IF k <= Avail(s, n) THEN file[s.pos + k]
        ELSE IF k = Avail(s, n) + 1 THEN g ELSE 0]

\* the values an uninitialised byte is taken to hold
Garbage == {0, 1, 16}

\* in.seekg(off, std::ios::cur): clears eofbit; moves unless the stream has failed
Seekg(s, off) ==
    IF s.fail THEN [s EXCEPT !.eof = FALSE]
    ELSE [s EXCEPT !.eof = FALSE, !.pos = s.pos + off]

U16(b) == b[1] + 256 * b[2]

U32(b) == b[1] + 256 * b[2] + 65536 * b[3] + 16777216 * b[4]

\* the value readUint16LE(in) returns from stream state s
readUint16LE(s, g) == U16(Bytes(s, 2, g))

\* the value readUint32LE(in) returns from stream state s
readUint32LE(s, g) == U32(Bytes(s, 4, g))

\* a std::int16_t read from two bytes of a little-endian host
Int16(lo, hi) ==
    LET u == lo + 256 * hi
    IN  IF u >= 32768 THEN u - 65536 ELSE u

(***************************************************************************)
(* Initial states: main is entered with a file and an output device.       *)
(***************************************************************************)
ClosedOut == [isOpen |-> FALSE, fail |-> FALSE, pos |-> W(0), size |-> W(0), data |-> <<>>]

NoWav == [sampleRate |-> 0, numChannels |-> 0, samples |-> <<>>]

NoHeader == [sampleRate |-> 0, bitsPerSample |-> 0, subchunk2Size |-> 0, dataBytes |-> 0]

\* circular_buffers is not running
DelayIdle ==
    /\ header = NoHeader
    /\ input = <<>>
    /\ output = <<>>
    /\ delaySamples = 0
    /\ maxDelaySamples = 0
    /\ delayBuffer = <<>>
    /\ writeIndex = 0
    /\ stepN = 0
    /\ readIndex = 0
    /\ delayed = 0

NoRequest == [x |-> 0, y |-> 0, r |-> 0, g |-> 0, b |-> 0, called |-> FALSE]

Inputs ==
    { <<3, d, Unlimited>> : d \in Descs }
    \cup { <<3, d, c>> : d \in FullDiskDescs, c \in FullDisks }
    \cup { <<2, CutBase, Unlimited>> }

Init ==
    /\ \E inp \in Inputs :
         /\ argc = inp[1]
         /\ desc = inp[2]
         /\ file = Encode(inp[2])
         /\ diskCap = inp[3]
    /\ pc = "main"
    /\ exitCode = -1
    /\ error = "none"
    /\ in = [pos |-> 0, fail |-> FALSE, eof |-> FALSE]
    /\ fmtFound = FALSE
    /\ dataFound = FALSE
    /\ sampleRate = 0
    /\ channels = 0
    /\ bitsPerSample = 0
    /\ samples = <<>>
    /\ chunkSize = 0
    /\ raw = <<>>
    /\ i = 0
    /\ shortRead = FALSE
    /\ wav = NoWav
    /\ out = ClosedOut
    /\ frameCount = 0
    /\ riffSizePos = W(0)
    /\ moviSizePos = W(0)
    /\ moviDataStart = W(0)
    /\ frameOffsets = <<>>
    /\ frameIndex = 0
    /\ moviEnd = W(0)
    /\ idxI = 0
    /\ frame = {}
    /\ request = NoRequest
    /\ before = {}
    /\ DelayIdle

(***************************************************************************)
(* main                                                                    *)
(***************************************************************************)
\* an exception reaches main's catch, or main returns: the process exits
Exit(code, what) ==
    /\ pc' = "exit"
    /\ exitCode' = code
    /\ error' = what

\* main, lines 353-361: the argument check, then the call of readWav
Main ==
    /\ pc = "main"
    /\ IF argc # 3
       THEN Exit(1, "Usage")
       ELSE pc' = "readWav" /\ UNCHANGED <<exitCode, error>>
    /\ UNCHANGED <<inputVars, delayVars, drawVars, readVars, wav, writeVars>>

(***************************************************************************)
(* readWav                                                                 *)
(***************************************************************************)
\* ReadWavHeader with the comparison of the second tag left out
ReadWavHeaderAnyForm ==
    /\ pc = "readWav"
    /\ \E opened \in BOOLEAN, g \in Garbage :
         LET s0 == [pos |-> 0, fail |-> FALSE, eof |-> FALSE]
             riff == Bytes(s0, 4, g)
             s1 == AfterRead(s0, 4)
             s2 == AfterRead(s1, 4)
             s3 == AfterRead(s2, 4)
         IN  IF ~opened
             THEN Exit(1, "OpenInput") /\ UNCHANGED <<in, shortRead>>
             ELSE IF riff # RIFF
             THEN Exit(1, "NotARiffFile") /\ in' = s1 /\ UNCHANGED shortRead
             ELSE /\ pc' = "chunkLoop"
                  /\ in' = s3
                  /\ shortRead' = (shortRead \/ Short(s1, 4))
                  /\ UNCHANGED <<exitCode, error>>
    /\ UNCHANGED <<inputVars, delayVars, drawVars, fmtFound, dataFound, sampleRate, channels,
                   bitsPerSample, samples, chunkSize, raw, i, wav, writeVars>>

\* lines 64-90: open the file, check "RIFF", skip the size, check "WAVE"
ReadWavHeader ==
    /\ pc = "readWav"
    /\ \E opened \in BOOLEAN, g \in Garbage :
         LET s0 == [pos |-> 0, fail |-> FALSE, eof |-> FALSE]
             riff == Bytes(s0, 4, g)
             s1 == AfterRead(s0, 4)
             s2 == AfterRead(s1, 4)
             wave == Bytes(s2, 4, g)
             s3 == AfterRead(s2, 4)
         IN  IF ~opened
             THEN Exit(1, "OpenInput") /\ UNCHANGED <<in, shortRead>>
             ELSE IF riff # RIFF
             THEN Exit(1, "NotARiffFile") /\ in' = s1 /\ UNCHANGED shortRead
             ELSE IF wave # WAVE
             THEN /\ Exit(1, "NotAWaveFile")
                  /\ in' = s3
                  /\ shortRead' = (shortRead \/ Short(s1, 4))
             ELSE /\ pc' = "chunkLoop"
                  /\ in' = s3
                  /\ shortRead' = (shortRead \/ Short(s1, 4))
                  /\ UNCHANGED <<exitCode, error>>
    /\ UNCHANGED <<inputVars, delayVars, drawVars, fmtFound, dataFound, sampleRate, channels,
                   bitsPerSample, samples, chunkSize, raw, i, wav, writeVars>>

\* the loop of line 92 goes on
InLoop == pc = "chunkLoop" /\ ~in.fail /\ (~fmtFound \/ ~dataFound)

\* lines 92, 153-162: the loop condition is false; throw, or return the audio
ReadWavReturn ==
    /\ pc = "chunkLoop"
    /\ in.fail \/ (fmtFound /\ dataFound)
    /\ IF ~fmtFound \/ ~dataFound
       THEN Exit(1, "MissingChunk") /\ UNCHANGED wav
       ELSE /\ wav' = [sampleRate |-> sampleRate, numChannels |-> channels,
                       samples |-> samples]
            /\ pc' = "writeAvi"
            /\ UNCHANGED <<exitCode, error>>
    /\ UNCHANGED <<inputVars, delayVars, drawVars, readVars, writeVars>>

\* lines 94-98, 153-156: no chunk identifier is left to read; break, then throw
ReadChunkEnd ==
    /\ InLoop
    /\ Short(in, 4)
    /\ in' = AfterRead(in, 4)
    /\ Exit(1, "MissingChunk")
    /\ UNCHANGED <<inputVars, delayVars, drawVars, fmtFound, dataFound, sampleRate, channels,
                   bitsPerSample, samples, chunkSize, raw, i, shortRead, wav,
                   writeVars>>

\* ReadFmtChunk with the test of the bits per sample left out
ReadFmtChunkAnyWidth ==
    /\ InLoop
    /\ ~Short(in, 4)
    /\ Bytes(in, 4, 0) = FMT
    /\ \E g \in Garbage :
         LET s1 == AfterRead(in, 4)
             size == readUint32LE(s1, g)
             s2 == AfterRead(s1, 4)
             audioFormat == readUint16LE(s2, g)
             s3 == AfterRead(s2, 2)
             ch == readUint16LE(s3, g)
             s4 == AfterRead(s3, 2)
             rate == readUint32LE(s4, g)
             s5 == AfterRead(s4, 4)
             s6 == AfterRead(s5, 4)
             s7 == AfterRead(s6, 2)
             bits == readUint16LE(s7, g)
             s8 == AfterRead(s7, 2)
             s9 == IF size > 16 THEN Seekg(s8, size - 16) ELSE s8
             s10 == IF size % 2 = 1 THEN Seekg(s9, 1) ELSE s9
         IN  /\ fmtFound' = TRUE
             /\ chunkSize' = size
             /\ channels' = ch
             /\ sampleRate' = rate
             /\ bitsPerSample' = bits
             /\ shortRead' = (shortRead \/ Short(s1, 4) \/ Short(s2, 2) \/ Short(s3, 2)
                                \/ Short(s4, 4) \/ Short(s5, 4) \/ Short(s6, 2)
                                \/ Short(s7, 2))
             /\ IF audioFormat # 1
                THEN Exit(1, "UnsupportedFormat") /\ in' = s9
                ELSE /\ in' = s10
                     /\ UNCHANGED <<pc, exitCode, error>>
    /\ UNCHANGED <<inputVars, delayVars, drawVars, dataFound, samples, raw, i, wav, writeVars>>

\* lines 94-122, 146-150: a "fmt " chunk
ReadFmtChunk ==
    /\ InLoop
    /\ ~Short(in, 4)
    /\ Bytes(in, 4, 0) = FMT
    /\ \E g \in Garbage :
         LET s1 == AfterRead(in, 4)
             size == readUint32LE(s1, g)
             s2 == AfterRead(s1, 4)
             audioFormat == readUint16LE(s2, g)
             s3 == AfterRead(s2, 2)
             ch == readUint16LE(s3, g)
             s4 == AfterRead(s3, 2)
             rate == readUint32LE(s4, g)
             s5 == AfterRead(s4, 4)
             s6 == AfterRead(s5, 4)
             s7 == AfterRead(s6, 2)
             bits == readUint16LE(s7, g)
             s8 == AfterRead(s7, 2)
             s9 == IF size > 16 THEN Seekg(s8, size - 16) ELSE s8
             s10 == IF size % 2 = 1 THEN Seekg(s9, 1) ELSE s9
         IN  /\ fmtFound' = TRUE
             /\ chunkSize' = size
             /\ channels' = ch
             /\ sampleRate' = rate
             /\ bitsPerSample' = bits
             /\ shortRead' = (shortRead \/ Short(s1, 4) \/ Short(s2, 2) \/ Short(s3, 2)
                                \/ Short(s4, 4) \/ Short(s5, 4) \/ Short(s6, 2)
                                \/ Short(s7, 2))
             /\ IF audioFormat # 1 \/ bits # 16
                THEN Exit(1, "UnsupportedFormat") /\ in' = s9
                ELSE /\ in' = s10
                     /\ UNCHANGED <<pc, exitCode, error>>
    /\ UNCHANGED <<inputVars, delayVars, drawVars, dataFound, samples, raw, i, wav, writeVars>>

\* lines 94-100, 123-128: a "data" chunk up to the frame loop
ReadDataChunk ==
    /\ InLoop
    /\ ~Short(in, 4)
    /\ Bytes(in, 4, 0) = DATA
    /\ \E g \in Garbage, corrupts \in BOOLEAN :
         LET s1 == AfterRead(in, 4)
             size == readUint32LE(s1, g)
             s2 == AfterRead(s1, 4)
             n == size \div 2
             got == Avail(s2, size)
             s3 == AfterRead(s2, size)
             byte(k) == IF k <= got THEN file[s2.pos + k] ELSE 0
             \* in.read stores byte number size behind the 2n bytes of raw
             overruns == got > 2 * n
         IN  /\ dataFound' = TRUE
             /\ chunkSize' = size
             /\ IF n > MaxSamples
                THEN /\ Exit(1, "bad_alloc")
                     /\ in' = s2
                     /\ shortRead' = (shortRead \/ Short(s1, 4))
                     /\ UNCHANGED <<raw, i>>
                ELSE /\ in' = s3
                     /\ shortRead' = (shortRead \/ Short(s1, 4) \/ got < size)
                     /\ raw' = [k \in 1..n |-> Int16(byte(2 * k - 1), byte(2 * k))]
                     /\ i' = 0
                     /\ IF overruns /\ corrupts
                        THEN pc' = "crashed"
                        ELSE corrupts = FALSE /\ pc' = "decode"
                     /\ UNCHANGED <<exitCode, error>>
    /\ UNCHANGED <<inputVars, delayVars, drawVars, fmtFound, sampleRate, channels, bitsPerSample,
                   samples, wav, writeVars>>

\* SkipChunk with the padding byte of an odd chunk left in the stream
SkipChunkUnpadded ==
    /\ InLoop
    /\ ~Short(in, 4)
    /\ Bytes(in, 4, 0) # FMT
    /\ Bytes(in, 4, 0) # DATA
    /\ \E g \in Garbage :
         LET s1 == AfterRead(in, 4)
             size == readUint32LE(s1, g)
             s2 == AfterRead(s1, 4)
         IN  /\ chunkSize' = size
             /\ shortRead' = (shortRead \/ Short(s1, 4))
             /\ in' = Seekg(s2, size)
    /\ UNCHANGED <<inputVars, delayVars, drawVars, pc, exitCode, error, fmtFound, dataFound,
                   sampleRate, channels, bitsPerSample, samples, raw, i, wav,
                   writeVars>>

\* lines 94-100, 140-150: any other chunk is skipped
SkipChunk ==
    /\ InLoop
    /\ ~Short(in, 4)
    /\ Bytes(in, 4, 0) # FMT
    /\ Bytes(in, 4, 0) # DATA
    /\ \E g \in Garbage :
         LET s1 == AfterRead(in, 4)
             size == readUint32LE(s1, g)
             s2 == AfterRead(s1, 4)
             s3 == Seekg(s2, size)
         IN  /\ chunkSize' = size
             /\ shortRead' = (shortRead \/ Short(s1, 4))
             /\ in' = IF size % 2 = 1 THEN Seekg(s3, 1) ELSE s3
    /\ UNCHANGED <<inputVars, delayVars, drawVars, pc, exitCode, error, fmtFound, dataFound,
                   sampleRate, channels, bitsPerSample, samples, raw, i, wav,
                   writeVars>>

\* std::clamp(mono, -1.0f, 1.0f) of the quotient num / den; 0 / 0 is NaN, which
\* compares false with both ends and is returned as it is
clamp(q) ==
    IF q.den = 0 THEN q
    ELSE IF q.num < -q.den THEN [num |-> -q.den, den |-> q.den]
    ELSE IF q.num > q.den THEN [num |-> q.den, den |-> q.den]
    ELSE q

RECURSIVE SumSeq(_)
SumSeq(s) == IF s = <<>> THEN 0 ELSE Head(s) + SumSeq(Tail(s))

\* Downmix with the division by the channel count left out
DownmixUndivided(r, at, ch, g) ==
    LET accumulator ==
            SumSeq([c \in 1..ch |-> IF at + c <= Len(r) THEN r[at + c] ELSE g])
    IN  clamp([num |-> accumulator, den |-> 32768])

\* lines 131-137: the sample of the frame at raw[at .. at + ch - 1]; g stands
\* for what is read behind the end of raw
Downmix(r, at, ch, g) ==
    LET accumulator ==
            SumSeq([c \in 1..ch |-> IF at + c <= Len(r) THEN r[at + c] ELSE g])
    IN  clamp([num |-> accumulator, den |-> 32768 * ch])

\* values a read behind the end of raw is taken to deliver
GarbageSamples == {0, -1, 12345}

\* lines 129-138: one pass of the frame loop
DecodeFrame ==
    /\ pc = "decode"
    /\ i < Len(raw)
    /\ \E g \in GarbageSamples, faults \in BOOLEAN :
         LET beyond == i + channels > Len(raw)
         IN  /\ beyond \/ (g = 0 /\ ~faults)
             /\ IF beyond /\ faults
                THEN pc' = "crashed" /\ UNCHANGED <<exitCode, error, samples, i>>
                ELSE IF Len(samples) >= MaxSamples
                THEN Exit(1, "bad_alloc") /\ UNCHANGED <<samples, i>>
                ELSE /\ samples' = Append(samples, Downmix(raw, i, channels, g))
                     /\ i' = i + channels
                     /\ UNCHANGED <<pc, exitCode, error>>
    /\ UNCHANGED <<inputVars, delayVars, drawVars, in, fmtFound, dataFound, sampleRate, channels,
                   bitsPerSample, chunkSize, raw, shortRead, wav, writeVars>>

\* lines 129, 146-150: the frame loop ends; skip the padding byte
DecodeEnd ==
    /\ pc = "decode"
    /\ i >= Len(raw)
    /\ in' = IF chunkSize % 2 = 1 THEN Seekg(in, 1) ELSE in
    /\ pc' = "chunkLoop"
    /\ UNCHANGED <<inputVars, delayVars, drawVars, exitCode, error, fmtFound, dataFound, sampleRate,
                   channels, bitsPerSample, samples, chunkSize, raw, i,
                   shortRead, wav, writeVars>>

(***************************************************************************)
(* Double arithmetic of writeAvi, lines 189-190.                           *)
(*                                                                         *)
(* samplesPerFrame = double(rate) / fps is rate / fps rounded to 53 bits.  *)
(* With 2^e <= rate / fps < 2^(e+1) and ulp = 2^(e-52), rate / fps is      *)
(* (m + rem / fps) * ulp for an integer m and rem = (rate * 2^(52-e)) %    *)
(* fps, so the division rounds down by (rem / fps) * ulp when              *)
(* 0 < 2 * rem < fps, and is exact or rounds up otherwise.                 *)
(* size / samplesPerFrame is then rounded again.  When size * fps / rate   *)
(* is not an integer the two roundings (relative error 2^-52) cannot reach *)
(* the next integer, so ceil gives k = ceil(size * fps / rate).  When it   *)
(* is the integer k and samplesPerFrame was rounded down, the quotient is  *)
(* above k by k * rem * 2^(e-52) / (fps * samplesPerFrame), and it rounds  *)
(* to the next double above k, so that ceil gives k + 1, exactly when that *)
(* excess is more than half of the spacing 2^(ek-52) of the doubles above  *)
(* k, 2^ek <= k < 2^(ek+1): when 2 * k * rem * 2^e >= rate * 2^ek.         *)
(***************************************************************************)
RECURSIVE Pow2(_)
Pow2(n) == IF n = 0 THEN 1 ELSE 2 * Pow2(n - 1)

RECURSIVE ILog2(_)
ILog2(k) == IF k < 2 THEN 0 ELSE 1 + ILog2(k \div 2)

RECURSIVE ShiftsTo(_, _)
\* the least m with r * 2^m >= bound
ShiftsTo(r, bound) == IF r >= bound THEN 0 ELSE 1 + ShiftsTo(2 * r, bound)

\* e with 2^e <= rate / fps < 2^(e+1)
BinExp(rate) ==
    IF rate >= fps THEN ILog2(rate \div fps) ELSE 0 - ShiftsTo(rate, fps)

RECURSIVE Pow2Mod(_, _)
Pow2Mod(n, m) == IF n = 0 THEN 1 % m ELSE (2 * Pow2Mod(n - 1, m)) % m

\* fps times the part of rate / fps, in units of its last place, that the
\* division by fps rounds away
DivRem(rate) == ((rate % fps) * Pow2Mod(52 - BinExp(rate), fps)) % fps

\* static_cast<double>(wav.sampleRate) / fps is below sampleRate / fps
SamplesPerFrameRoundsDown(rate) == 0 < 2 * DivRem(rate) /\ 2 * DivRem(rate) < fps

\* lines 189-190: static_cast<size_t>(std::ceil(size / samplesPerFrame)), rate >= 1
FrameCount(size, rate) ==
    LET k == (size * fps + rate - 1) \div rate
        e == BinExp(rate)
        up == 2 * k * DivRem(rate) * Pow2(IF e > 0 THEN e ELSE 0)
                >= rate * Pow2(ILog2(k)) * Pow2(IF e < 0 THEN 0 - e ELSE 0)
    IN  IF size = 0 THEN 0
        ELSE IF (size * fps) % rate = 0 /\ SamplesPerFrameRoundsDown(rate) /\ up
        THEN k + 1
        ELSE k

(***************************************************************************)
(* std::ofstream over the output file.  o = [isOpen, fail, pos, size,      *)
(* data]: data lists the items written, each with its offset at; size is   *)
(* the length of the file.                                                 *)
(***************************************************************************)
Tag(t) == [kind |-> "tag", tag |-> t, val |-> W(0), size |-> 4,
           plot |-> <<>>]

Uint32(w) == [kind |-> "u32", tag |-> "", val |-> toUint32(w), size |-> 4,
              plot |-> <<>>]

Uint16(n) == [kind |-> "u16", tag |-> "", val |-> W(n % Limb), size |-> 2,
              plot |-> <<>>]

\* the pixels of one frame: plot = <<frameIndex, startSample, columns plotted>>
Pixels(n, plot) ==
    [kind |-> "pixels", tag |-> "", val |-> W(0), size |-> n, plot |-> plot]

Zero(n) == [kind |-> "zero", tag |-> "", val |-> W(0), size |-> n,
            plot |-> <<>>]

Placed(it, at) ==
    [at |-> at, kind |-> it.kind, tag |-> it.tag, val |-> it.val, size |-> it.size,
     plot |-> it.plot]

\* the items of the file after it is written at offset at
Store(data, it, at, atEnd) ==
    IF atEnd THEN Append(data, Placed(it, at))
    ELSE [k \in 1..Len(data) |-> IF data[k].at = at THEN Placed(it, at) ELSE data[k]]

\* out.write / out.put of one item: nothing on a failed stream; badbit when the
\* device has no room for bytes behind the end of the file
Write(o, it) ==
    LET end == WAdd(o.pos, it.size)
    IN  IF o.fail THEN o
        ELSE IF WLess(o.size, end) /\ WLess(diskCap, end)
        THEN [o EXCEPT !.fail = TRUE]
        ELSE [o EXCEPT !.data = Store(o.data, it, o.pos, o.pos = o.size),
                       !.pos = end,
                       !.size = WMax(o.size, end)]

writeUint32LE(o, w) == Write(o, Uint32(w))

writeUint16LE(o, n) == Write(o, Uint16(n))

\* the writes of items, one after the other, taken in two halves; the test on
\* half has the first half written before the second one starts
RECURSIVE WriteAll(_, _)
WriteAll(o, items) ==
    LET n == Len(items)
        half == WriteAll(o, SubSeq(items, 1, n \div 2))
    IN  IF n = 0 THEN o
        ELSE IF n = 1 THEN Write(o, items[1])
        ELSE IF half.fail \in BOOLEAN THEN WriteAll(half, SubSeq(items, n \div 2 + 1, n))
        ELSE half

\* out.tellp(): pos_type(-1) on a failed stream
Tellp(o) == IF o.fail THEN W(-1) ELSE o.pos

\* out.seekp(p): nothing on a failed stream
Seekp(o, p) ==
    IF o.fail THEN o
    ELSE IF p.hi < 0 THEN [o EXCEPT !.fail = TRUE]
    ELSE [o EXCEPT !.pos = p]

(***************************************************************************)
(* writeAvi                                                                *)
(***************************************************************************)
\* lines 203-275: everything from "RIFF" to the "LIST" of the movi list
HeaderItems(frames) ==
    << Tag("RIFF"), Uint32(W(0)), Tag("AVI "),
       Tag("LIST"), Uint32(W(4 + (8 + 56) + (8 + 56) + (8 + 40))), Tag("hdrl"),
       Tag("avih"), Uint32(W(56)),
       Uint32(W(1000000 \div fps)), Uint32(W(frameDataSize * fps)), Uint32(W(0)),
       Uint32(W(16)), Uint32(W(frames)), Uint32(W(0)), Uint32(W(1)),
       Uint32(W(frameDataSize)), Uint32(W(width)), Uint32(W(height)),
       Uint32(W(0)), Uint32(W(0)), Uint32(W(0)), Uint32(W(0)),
       Tag("LIST"), Uint32(W(4 + (8 + 56) + (8 + 40))), Tag("strl"),
       Tag("strh"), Uint32(W(56)), Tag("vids"), Tag("DIB "), Uint32(W(0)),
       Uint16(0), Uint16(0), Uint32(W(0)), Uint32(W(1)), Uint32(W(fps)),
       Uint32(W(0)), Uint32(W(frames)), Uint32(W(frameDataSize)),
       Uint32([hi |-> Limb - 1, lo |-> Limb - 1]), Uint32(W(0)),
       Uint16(0), Uint16(0), Uint16(0), Uint16(0),
       Tag("strf"), Uint32(W(40)), Uint32(W(width)), Uint32(W(height)),
       Uint16(1), Uint16(24), Uint32(W(0)), Uint32(W(frameDataSize)),
       Uint32(W(0)), Uint32(W(0)), Uint32(W(0)), Uint32(W(0)),
       Tag("LIST") >>

\* lines 189-190 with sampleRate = 0: size / 0.0 is NaN or infinite, and its
\* conversion to std::size_t is undefined; it gives 0, or a count (its low 32
\* bits 0) that no vector can reserve
HugeCount == 32767 * 65536

\* lines 189-286: the frame count, the open, the headers, the reserve
WriteAviBegin ==
    /\ pc = "writeAvi"
    /\ wav.sampleRate >= 0
    /\ \E opened \in BOOLEAN, huge \in BOOLEAN :
         LET frames == IF wav.sampleRate = 0
                       THEN (IF huge THEN HugeCount ELSE 0)
                       ELSE FrameCount(Len(wav.samples), wav.sampleRate)
             o0 == [isOpen |-> TRUE, fail |-> FALSE, pos |-> W(0), size |-> W(0),
                    data |-> <<>>]
             o1 == WriteAll(o0, HeaderItems(IF huge THEN 0 ELSE frames))
             o2 == Write(writeUint32LE(o1, W(0)), Tag("movi"))
         IN  /\ huge => wav.sampleRate = 0
             /\ frameCount' = frames
             /\ IF frames = 0
                THEN /\ opened
                     /\ Exit(1, "EmptyAudio")
                     /\ UNCHANGED <<out, riffSizePos, moviSizePos, moviDataStart>>
                ELSE IF ~opened
                THEN /\ Exit(1, "OpenOutput")
                     /\ UNCHANGED <<out, riffSizePos, moviSizePos, moviDataStart>>
                ELSE /\ riffSizePos' = Tellp(o0)
                     /\ moviSizePos' = Tellp(o1)
                     /\ moviDataStart' = Tellp(o2)
                     /\ out' = o2
                     /\ IF huge
                        THEN Exit(1, "length_error")
                        ELSE pc' = "frames" /\ UNCHANGED <<exitCode, error>>
    /\ frameOffsets' = <<>>
    /\ frameIndex' = 0
    /\ UNCHANGED <<inputVars, delayVars, drawVars, readVars, wav, moviEnd, idxI>>

(***************************************************************************)
(* The renderer's window, lines 298-306.  samplesPerFrame is the double    *)
(* fl(rate / fps) of FrameCount, and frameIndex * samplesPerFrame is       *)
(* rounded once more before the conversion to std::size_t truncates it.    *)
(* With k = floor(frameIndex * rate / fps): when frameIndex * rate / fps    *)
(* is not an integer the roundings cannot reach an integer and the start   *)
(* is k.  When it is the integer k >= 1 and samplesPerFrame was rounded    *)
(* down, the product is k * rem * 2^(e-52) / rate below k, and it rounds   *)
(* to a double below k, so that the start is k - 1, exactly when that is   *)
(* more than half of the spacing of the doubles below k: 2^(ek-52), and    *)
(* 2^(ek-53) when k = 2^ek.                                                *)
(***************************************************************************)
\* line 298: static_cast<std::size_t>(frameIndex * samplesPerFrame), rate >= 1
startSample(index, rate) ==
    LET k == (index * rate) \div fps
        e == BinExp(rate)
        ek == ILog2(k)
        below == (IF k = Pow2(ek) THEN 4 ELSE 2) * k * DivRem(rate)
                     * Pow2(IF e > 0 THEN e ELSE 0)
                   > rate * Pow2(ek) * Pow2(IF e < 0 THEN 0 - e ELSE 0)
    IN  IF k >= 1 /\ (index * rate) % fps = 0 /\ SamplesPerFrameRoundsDown(rate) /\ below
        THEN k - 1
        ELSE k

\* lines 301-302: idx of column x in the frame that starts at start.  The
\* quotient samplesPerFrame * x / width is rate * x / (fps * width) up to its
\* roundings, which can cross an integer only where rate * x is a positive
\* multiple of fps * width: at no column for a rate up to fps, nor for 45
SampleIndex(start, x, rate) == start + (rate * x) \div (fps * width)

\* lines 299-310: the number of columns plotted before the break of line 305,
\* size samples in all.  idx does not decrease with x, so the columns before
\* the break are those with rate * x < (size - start) * fps * width
Plotted(start, rate, size) ==
    LET reach == ((size - start) * fps * width + rate - 1) \div rate
    IN  IF start >= size THEN 0
        ELSE IF reach < width THEN reach
        ELSE width

\* lines 289-322: turn index of the frame loop on st = [o, offsets]; of the
\* pixels of the frame, the window that was plotted is kept
FrameTurn(st, index) ==
    LET chunkStart == Tellp(st.o)
        start == startSample(index, wav.sampleRate)
        plot == <<index, start, Plotted(start, wav.sampleRate, Len(wav.samples))>>
        o1 == Write(writeUint32LE(Write(st.o, Tag("00db")), W(frameDataSize)),
                    Pixels(frameDataSize, plot))
    IN  [o |-> IF frameDataSize % 2 = 1 THEN Write(o1, Zero(1)) ELSE o1,
         offsets |-> Append(st.offsets, toUint32(WSub(chunkStart, moviDataStart)))]

\* line 288: the turns from .. to - 1 of the frame loop, one after the other,
\* taken in two halves; the test on half has the first half evaluated before
\* the second one starts
RECURSIVE FrameLoop(_, _, _)
FrameLoop(st, from, to) ==
    LET half == FrameLoop(st, from, (from + to) \div 2)
    IN  IF from >= to THEN st
        ELSE IF to = from + 1 THEN FrameTurn(st, from)
        ELSE IF Len(half.offsets) >= 0 THEN FrameLoop(half, (from + to) \div 2, to)
        ELSE half

\* lines 288-323: the frame loop
WriteFrame ==
    /\ pc = "frames"
    /\ frameIndex < frameCount
    /\ LET st == FrameLoop([o |-> out, offsets |-> frameOffsets], frameIndex, frameCount)
       IN  /\ frameOffsets' = st.offsets
           /\ out' = st.o
    /\ frameIndex' = frameCount
    /\ UNCHANGED <<inputVars, delayVars, drawVars, pc, exitCode, error, readVars, wav, frameCount,
                   riffSizePos, moviSizePos, moviDataStart, moviEnd, idxI>>

\* lines 288, 325-333: the frame loop ends; the movi size, then the idx1 header
WriteMoviSize ==
    /\ pc = "frames"
    /\ frameIndex >= frameCount
    /\ LET end == Tellp(out)
           moviSize == toUint32(WAdd(WSub(end, moviSizePos), -4))
           o1 == Seekp(writeUint32LE(Seekp(out, moviSizePos), moviSize), end)
       IN  /\ moviEnd' = end
           /\ out' = writeUint32LE(Write(o1, Tag("idx1")), W(frameCount * 16))
    /\ idxI' = 0
    /\ pc' = "idx1"
    /\ UNCHANGED <<inputVars, delayVars, drawVars, exitCode, error, readVars, wav, frameCount,
                   riffSizePos, moviSizePos, moviDataStart, frameOffsets, frameIndex>>

\* lines 335-339: one entry of the index
IndexEntry(o, offset) ==
    WriteAll(o, << Tag("00db"), Uint32(W(16)), Uint32(offset), Uint32(W(frameDataSize)) >>)

\* line 334: the entries from + 1 .. to of the index, one after the other,
\* taken in two halves as in FrameLoop
RECURSIVE IndexLoop(_, _, _)
IndexLoop(o, from, to) ==
    LET half == IndexLoop(o, from, (from + to) \div 2)
    IN  IF from >= to THEN o
        ELSE IF to = from + 1 THEN IndexEntry(o, frameOffsets[to])
        ELSE IF Len(half.data) >= 0 THEN IndexLoop(half, (from + to) \div 2, to)
        ELSE half

\* lines 334-340: the index loop
WriteIndexEntry ==
    /\ pc = "idx1"
    /\ idxI < frameCount
    /\ out' = IndexLoop(out, idxI, frameCount)
    /\ idxI' = frameCount
    /\ UNCHANGED <<inputVars, delayVars, drawVars, pc, exitCode, error, readVars, wav, frameCount,
                   riffSizePos, moviSizePos, moviDataStart, frameOffsets,
                   frameIndex, moviEnd>>

\* lines 334, 342-348, 370: the RIFF size, close, "Wrote ...", and main returns 0
WriteAviEnd ==
    /\ pc = "idx1"
    /\ idxI >= frameCount
    /\ LET fileEnd == Tellp(out)
           riffSize == toUint32(WAdd(WSub(fileEnd, riffSizePos), -4))
           o1 == writeUint32LE(Seekp(out, WAdd(riffSizePos, 4)), riffSize)
       IN  out' = [o1 EXCEPT !.isOpen = FALSE]
    /\ Exit(0, "none")
    /\ UNCHANGED <<inputVars, delayVars, drawVars, readVars, wav, frameCount, riffSizePos, moviSizePos,
                   moviDataStart, frameOffsets, frameIndex, moviEnd, idxI>>

Next ==
    \/ Main
    \/ ReadWavHeader
    \/ ReadWavReturn
    \/ ReadChunkEnd
    \/ ReadFmtChunk
    \/ ReadDataChunk
    \/ SkipChunk
    \/ DecodeFrame
    \/ DecodeEnd
    \/ WriteAviBegin
    \/ WriteFrame
    \/ WriteMoviSize
    \/ WriteIndexEntry
    \/ WriteAviEnd

Spec == Init /\ [][Next]_vars

(***************************************************************************)
(* drawPixel on its own.  frame holds the bytes that are not 0 of the      *)
(* buffer it is handed, as pairs <<offset, byte>>; an offset of            *)
(* frameDataSize or more is a byte of the heap behind the buffer.          *)
(***************************************************************************)
\* frame[index] = v
Poke(f, index, v) ==
    { e \in f : e[1] # index } \cup (IF v = 0 THEN {} ELSE { <<index, v>> })

\* lines 173-174: invertedY * rowStride + x * 3
PixelIndex(stride, x, y, h) == (h - 1 - y) * stride + x * 3

\* line 168: the requests that return at once
Dropped(x, y, h) == x < 0 \/ y < 0 \/ y >= h

\* lines 165-177
drawPixel(f, stride, x, y, h, r, g, b) ==
    LET index == PixelIndex(stride, x, y, h)
    IN  IF Dropped(x, y, h) THEN f
        ELSE Poke(Poke(Poke(f, index + 0, b), index + 1, g), index + 2, r)

\* the columns and rows asked for: the corners of the canvas and their
\* neighbours outside
DrawXs == { -1, 0, width - 1, width }

DrawYs == { -1, 0, height - 1, height }

\* lines 295 and 309: the colours writeAvi draws with, as <<r, g, b>>
Colours == { <<30, 30, 30>>, <<50, 200, 120>> }

InitDraw ==
    /\ argc = 3
    /\ desc = CutBase
    /\ file = Encode(CutBase)
    /\ diskCap = Unlimited
    /\ pc = "drawPixel"
    /\ exitCode = -1
    /\ error = "none"
    /\ in = [pos |-> 0, fail |-> FALSE, eof |-> FALSE]
    /\ fmtFound = FALSE
    /\ dataFound = FALSE
    /\ sampleRate = 0
    /\ channels = 0
    /\ bitsPerSample = 0
    /\ samples = <<>>
    /\ chunkSize = 0
    /\ raw = <<>>
    /\ i = 0
    /\ shortRead = FALSE
    /\ wav = NoWav
    /\ out = ClosedOut
    /\ frameCount = 0
    /\ riffSizePos = W(0)
    /\ moviSizePos = W(0)
    /\ moviDataStart = W(0)
    /\ frameOffsets = <<>>
    /\ frameIndex = 0
    /\ moviEnd = W(0)
    /\ idxI = 0
    /\ frame = {}
    /\ request = NoRequest
    /\ before = {}
    /\ DelayIdle

\* lines 165-177: one call on the buffer of line 284.  A store behind the end
\* of the vector is undefined: the process dies, or the heap takes the bytes
DrawPixel ==
    /\ pc = "drawPixel"
    /\ \E x \in DrawXs, y \in DrawYs, c \in Colours :
         LET behind == ~Dropped(x, y, height)
                         /\ PixelIndex(rowStride, x, y, height) + 2 >= frameDataSize
         IN  /\ request' = [x |-> x, y |-> y, r |-> c[1], g |-> c[2], b |-> c[3],
                            called |-> TRUE]
             /\ before' = frame
             /\ \/ /\ behind
                   /\ pc' = "crashed"
                   /\ frame' = frame
                \/ /\ frame' = drawPixel(frame, rowStride, x, y, height, c[1], c[2], c[3])
                   /\ pc' = pc
    /\ UNCHANGED <<inputVars, delayVars, exitCode, error, readVars, wav, writeVars>>

\* fill with every byte of the buffer left as it is
fillSkipped(f) == f

\* line 290: std::fill(frame.begin(), frame.end(), 0); the heap behind the
\* buffer is not touched
fill(f) == { e \in f : e[1] >= frameDataSize }

\* line 290 on its own
FillFrame ==
    /\ pc = "drawPixel"
    /\ frame # {}
    /\ frame' = fill(frame)
    /\ request' = NoRequest
    /\ before' = frame
    /\ UNCHANGED <<inputVars, delayVars, pc, exitCode, error, readVars, wav, writeVars>>

NextDraw ==
    \/ DrawPixel
    \/ FillFrame

SpecDraw == InitDraw /\ [][NextDraw]_vars

(***************************************************************************)
(* The frame loop byte by byte: the program on a few recordings, with one  *)
(* action a turn of the loop and the buffer followed through drawPixel.    *)
(***************************************************************************)
\* line 285
midY == height \div 2

\* line 286: static_cast<int>(height * 0.4); the double 720 * 0.4 is 288.0
waveformHeight == (height * 4) \div 10

\* line 308: static_cast<int>(midY - amplitude * waveformHeight).  The sample
\* num / den of one or two channels is a float without rounding (den is a
\* power of two), the product and the difference are exact doubles, and the
\* difference is positive, so the conversion gives its floor
PlotY(sample) == (midY * sample.den - sample.num * waveformHeight) \div sample.den

\* the bytes of g laid over those of f; at is the set of the offsets of g
OverAt(f, g, at) == g \cup { e \in f : e[1] \notin at }

\* lines 293-296: the centre line, as the bytes its calls of drawPixel store
CentreLine ==
    UNION { drawPixel({}, rowStride, x, midY, height, 30, 30, 30) : x \in 0..(width - 1) }

\* lines 298-310: the waveform of frame index, as the bytes its calls of
\* drawPixel store; the loop passes Plotted columns before its break
Waveform(index) ==
    LET start == startSample(index, wav.sampleRate)
        cols == Plotted(start, wav.sampleRate, Len(wav.samples))
    IN  UNION { drawPixel({}, rowStride, x,
                          PlotY(wav.samples[SampleIndex(start, x, wav.sampleRate) + 1]),
                          height, 50, 200, 120) : x \in 0..(cols - 1) }

\* lines 290-310: the buffer f after the turn index of the frame loop.  Every
\* call of drawPixel stores three bytes that are not 0, so a call lays its
\* bytes over the buffer, and no two calls of one loop store at one offset
Render(f, index) ==
    LET wave == Waveform(index)
        line == CentreLine
        filled == fill(f)
    IN  OverAt(OverAt(filled, line, { e[1] : e \in line }), wave, { e[1] : e \in wave })

\* line 315: the bytes out.write(frame.data(), frameDataSize) takes from f
Payload(f) == { e \in f : e[1] < frameDataSize }

\* the recordings whose frames are followed byte by byte, and the same files
\* without their data chunk
RenderDescs ==
    { d \in PcmDescs : /\ d.order \in { <<"fmt", "LIST", "data">>, <<"fmt">> }
                       /\ d.listLen = MaxListBytes
                       /\ d.start = 0
                       /\ d.channels \in 1..2
                       /\ d.dataLen \in {4, 8} }

InitRender ==
    /\ Init
    /\ argc = 3
    /\ desc \in RenderDescs
    /\ diskCap = Unlimited

\* lines 288-323: one turn of the frame loop; the pixels item keeps the bytes
\* written as plot[4]
RenderFrame ==
    /\ pc = "frames"
    /\ frameIndex < frameCount
    /\ LET f == Render(frame, frameIndex)
           start == startSample(frameIndex, wav.sampleRate)
           plot == <<frameIndex, start,
                     Plotted(start, wav.sampleRate, Len(wav.samples)), Payload(f)>>
           chunkStart == Tellp(out)
           o1 == Write(writeUint32LE(Write(out, Tag("00db")), W(frameDataSize)),
                       Pixels(frameDataSize, plot))
       IN  /\ frame' = f
           /\ frameOffsets' = Append(frameOffsets, toUint32(WSub(chunkStart, moviDataStart)))
           /\ out' = IF frameDataSize % 2 = 1 THEN Write(o1, Zero(1)) ELSE o1
    /\ frameIndex' = frameIndex + 1
    /\ UNCHANGED <<inputVars, delayVars, pc, exitCode, error, readVars, wav, frameCount,
                   riffSizePos, moviSizePos, moviDataStart, moviEnd, idxI,
                   request, before>>

NextRender ==
    \/ Main
    \/ ReadWavHeader
    \/ ReadWavReturn
    \/ ReadChunkEnd
    \/ ReadFmtChunk
    \/ ReadDataChunk
    \/ SkipChunk
    \/ DecodeFrame
    \/ DecodeEnd
    \/ WriteAviBegin
    \/ RenderFrame
    \/ WriteMoviSize
    \/ WriteIndexEntry
    \/ WriteAviEnd

SpecRender == InitRender /\ [][NextRender]_vars

(***************************************************************************)
(* "5. CircularBuffers/circular_buffers.cpp": main delays input.wav by 250 *)
(* ms through a circular buffer.  The file is a 44-byte header and its     *)
(* samples; sample rates and lengths are small here, so that no uint32_t   *)
(* or int32_t of the loop comes near its range.                            *)
(***************************************************************************)
\* two recordings, no two samples of one alike and none 0
Ramp == [k \in 1..(MaxInput + 1) |-> 1000 * k - 6500]

Loud == [k \in 1..(MaxInput + 1) |-> IF k % 2 = 1 THEN 32767 - k ELSE k - 32768]

\* the video program is not running
VideoIdle ==
    /\ argc = 1
    /\ desc = CutBase
    /\ file = <<>>
    /\ diskCap = Unlimited
    /\ in = [pos |-> 0, fail |-> FALSE, eof |-> FALSE]
    /\ fmtFound = FALSE
    /\ dataFound = FALSE
    /\ sampleRate = 0
    /\ channels = 0
    /\ bitsPerSample = 0
    /\ samples = <<>>
    /\ chunkSize = 0
    /\ raw = <<>>
    /\ i = 0
    /\ shortRead = FALSE
    /\ wav = NoWav
    /\ out = ClosedOut
    /\ frameCount = 0
    /\ riffSizePos = W(0)
    /\ moviSizePos = W(0)
    /\ moviDataStart = W(0)
    /\ frameOffsets = <<>>
    /\ frameIndex = 0
    /\ moviEnd = W(0)
    /\ idxI = 0
    /\ frame = {}
    /\ request = NoRequest
    /\ before = {}

videoVars == <<inputVars, readVars, wav, writeVars, drawVars>>

\* input.wav: a 16-bit file of len samples, its last byte there or missing;
\* at most two samples where the sample rate is 0 and every turn reads garbage
InitDelay ==
    /\ \E rate \in 0..MaxDelayRate, signal \in {Ramp, Loud}, len \in 0..MaxInput,
          missing \in 0..1 :
         /\ missing <= 2 * len
         /\ rate = 0 => len <= 2
         /\ header = [sampleRate |-> rate, bitsPerSample |-> 16,
                      subchunk2Size |-> 2 * len, dataBytes |-> 2 * len - missing]
         /\ input = SubSeq(signal, 1, len)
    /\ output = <<>>
    /\ delaySamples = 0
    /\ maxDelaySamples = 0
    /\ delayBuffer = <<>>
    /\ writeIndex = 0
    /\ stepN = 0
    /\ readIndex = 0
    /\ delayed = 0
    /\ pc = "delayMain"
    /\ exitCode = -1
    /\ error = "none"
    /\ VideoIdle

\* line 97: static_cast<uint32_t>((delayMs / 1000.0f) * header.sampleRate);
\* 250 / 1000 is the float 0.25 and the product is exact for a rate below 2^24
DelaySamples(rate) == rate \div 4

\* lines 59-113: the file is read, the delay and the buffers are set up
DelayMain ==
    /\ pc = "delayMain"
    /\ \E opened \in BOOLEAN :
         LET numSamples == header.subchunk2Size \div (header.bitsPerSample \div 8)
         IN  IF ~opened
             THEN /\ Exit(1, "OpenInput")
                  /\ UNCHANGED <<output, delaySamples, maxDelaySamples, delayBuffer>>
             ELSE IF header.dataBytes < header.subchunk2Size
             THEN /\ Exit(1, "ReadData")
                  /\ UNCHANGED <<output, delaySamples, maxDelaySamples, delayBuffer>>
             ELSE /\ delaySamples' = DelaySamples(header.sampleRate)
                  /\ output' = [k \in 1..numSamples |-> 0]
                  /\ maxDelaySamples' = header.sampleRate
                  /\ delayBuffer' = [k \in 1..header.sampleRate |-> 0]
                  /\ pc' = "delayLoop"
                  /\ UNCHANGED <<exitCode, error>>
    /\ writeIndex' = 0
    /\ stepN' = 0
    /\ UNCHANGED <<videoVars, header, input, readIndex, delayed>>

\* line 124-129: writeIndex - delaySamples, wrapped once
ReadIndex(w, delay, capacity) ==
    IF w - delay < 0 THEN w - delay + capacity ELSE w - delay

\* lines 134-140: static_cast<int16_t>(std::clamp(0.8f * x + 0.5f * d, ...)).
\* For 16-bit x and d the float sum is within 0.01 of (8 x + 5 d) / 10, which
\* is a whole number or at least 0.1 away from one, so the conversion gives
\* that quotient cut towards 0
Mix(sample, wetSample) ==
    LET tenths == Max(-327680, Min(327670, 8 * sample + 5 * wetSample))
    IN  IF tenths >= 0 THEN tenths \div 10 ELSE 0 - ((0 - tenths) \div 10)

\* lines 116-152: one turn of the processing loop.  With a buffer of no
\* element (sample rate 0) the read and the store are out of bounds: the
\* process dies, or the read gives whatever lies there
DelayStep ==
    /\ pc = "delayLoop"
    /\ stepN < Len(input)
    /\ \E g \in GarbageSamples, faults \in BOOLEAN :
         LET sample == input[stepN + 1]
             r == ReadIndex(writeIndex, delaySamples, maxDelaySamples)
             outside == r < 0 \/ r >= maxDelaySamples
             wetSample == IF outside THEN g ELSE delayBuffer[r + 1]
         IN  /\ outside \/ (g = 0 /\ ~faults)
             /\ readIndex' = r
             /\ IF outside /\ faults
                THEN /\ pc' = "crashed"
                     /\ UNCHANGED <<output, delayBuffer, writeIndex, stepN, delayed>>
                ELSE /\ delayed' = wetSample
                     /\ output' = [output EXCEPT ![stepN + 1] = Mix(sample, wetSample)]
                     /\ delayBuffer' = IF writeIndex < maxDelaySamples
                                       THEN [delayBuffer EXCEPT ![writeIndex + 1] = sample]
                                       ELSE delayBuffer
                     /\ writeIndex' = IF writeIndex + 1 >= maxDelaySamples
                                      THEN 0 ELSE writeIndex + 1
                     /\ stepN' = stepN + 1
                     /\ pc' = pc
    /\ UNCHANGED <<videoVars, exitCode, error, header, input, delaySamples,
                   maxDelaySamples>>

\* lines 116, 154-165: the loop ends; output_delay.wav is written
DelayWrite ==
    /\ pc = "delayLoop"
    /\ stepN >= Len(input)
    /\ \E opened \in BOOLEAN :
         IF opened THEN Exit(0, "none") ELSE Exit(1, "OpenOutput")
    /\ UNCHANGED <<videoVars, delayVars>>

NextDelay ==
    \/ DelayMain
    \/ DelayStep
    \/ DelayWrite

SpecDelay == InitDelay /\ [][NextDelay]_vars

(***************************************************************************)
(* "4. SimpleDelay(ArrayIndexing)/simple_delay_array.cpp", applySimpleDelay *)
(***************************************************************************)
\* lines 78-84: delayedSample of turn k = 0, 1, ... of the loop over signal
delayedSample(signal, k, delay) == IF k >= delay THEN signal[k - delay + 1] ELSE 0

(***************************************************************************)
(* Reading the written file back.                                          *)
(***************************************************************************)
\* writeAvi ran to its end and main returned 0
Wrote == pc = "exit" /\ exitCode = 0

\* the same, and no write of the run failed
WroteAll == Wrote /\ ~out.fail

\* main returned 1
Failed == pc = "exit" /\ exitCode = 1

ItemIndex(at) == CHOOSE k \in 1..Len(out.data) : out.data[k].at = at

\* the value of the integer written at byte offset at
FieldAt(at) == out.data[ItemIndex(at)].val

TagIndex(t) ==
    CHOOSE k \in 1..Len(out.data) : out.data[k].kind = "tag" /\ out.data[k].tag = t

\* the byte offset of the (only) tag t
TagAt(t) == out.data[TagIndex(t)].at

\* the "00db" chunk headers in front of the index
FrameChunks ==
    { k \in 1..TagIndex("idx1") : out.data[k].kind = "tag" /\ out.data[k].tag = "00db" }

\* the offsets listed in the idx1 table, one of every four items behind its header
IdxOffsetAt(first, k) == out.data[first + 4 * (k - 1) + 2].val

IdxOffsets ==
    LET first == TagIndex("idx1") + 2
    IN  [k \in 1..((Len(out.data) + 1 - first) \div 4) |-> IdxOffsetAt(first, k)]

\* ceil(N / (R / F)) in exact arithmetic
ExactFrames == (Len(wav.samples) * fps + wav.sampleRate - 1) \div wav.sampleRate

(***************************************************************************)
(* The claims.                                                             *)
(***************************************************************************)
\* C1: after writeAvi completes (no write failed), the 32-bit value stored in
\* bytes 4..7 of the output equals the final length of the file minus 8.
C1_RiffSizeIsLengthMinus8 ==
    WroteAll => FieldAt(W(4)) = WAdd(out.size, -8)

\* C2: for a fmt chunk with channelCount >= 1 and a data chunk of L bytes,
\* readWav returns floor(L / (channelCount * 2)) samples, and the frame loop
\* never starts a frame that reaches behind the end of raw.
C2_WholeFramesOnly ==
    (desc.cut < 0 /\ desc.channels >= 1) =>
        /\ pc = "writeAvi" => Len(wav.samples) = desc.dataLen \div (desc.channels * 2)
        /\ (pc = "decode" /\ fmtFound /\ i < Len(raw)) => i + channels <= Len(raw)

\* the samples of the whole frames of the data chunk of d, downmixed
WholeFrames(d) == d.dataLen \div (d.channels * 2)

FrameSum(d, k) == SumSeq([c \in 1..d.channels |-> d.pcm[(k - 1) * d.channels + c]])

RefSample(sum, ch) ==
    [num |-> Max(0 - 32768 * ch, Min(32768 * ch, sum)), den |-> 32768 * ch]

RefSamples(d) == [k \in 1..WholeFrames(d) |-> RefSample(FrameSum(d, k), d.channels)]

RECURSIVE Before(_, _, _)
\* chunk a comes before chunk b in order
Before(order, a, b) ==
    IF order = <<>> THEN FALSE
    ELSE IF Head(order) = b THEN FALSE
    ELSE IF Head(order) = a THEN \E k \in 1..Len(order) : order[k] = b
    ELSE Before(Tail(order), a, b)

\* what readWav throws once the file is open
ReadWavErrors ==
    {"NotARiffFile", "NotAWaveFile", "UnsupportedFormat", "MissingChunk", "bad_alloc"}

\* C3: a file whose data chunk (of whole frames) precedes its fmt chunk is
\* decoded like one with the chunks the other way round: the frames are grouped
\* by the channel count
\* the fmt chunk declares, readWav does not fail, and it returns the sample
\* rate, the channel count and the samples of the data chunk.
C3_DataBeforeFmt ==
    (/\ desc.cut < 0
     /\ Before(desc.order, "data", "fmt")
     /\ desc.channels >= 1
     /\ desc.dataLen % (desc.channels * 2) = 0) =>
        /\ (pc = "decode" /\ i < Len(raw)) => channels = desc.channels
        /\ ~(Failed /\ error \in ReadWavErrors)
        /\ pc # "crashed"
        /\ pc = "writeAvi" =>
              wav = [sampleRate |-> desc.rate, numChannels |-> desc.channels,
                     samples |-> RefSamples(desc)]

\* C4: once a fmt chunk that declares zero channels has been read, readWav has
\* failed with UnsupportedFormat (so no frame is grouped with channels = 0).
C4_ZeroChannelsRejected ==
    (fmtFound /\ ~shortRead /\ channels = 0) =>
        (Failed /\ error = "UnsupportedFormat")

\* C5: when an integer read or the payload read got fewer bytes than it asked
\* for, readWav fails: no frame is decoded after it and no audio is returned.
C5_ShortReadFails ==
    shortRead => (pc \notin {"decode", "writeAvi", "frames", "idx1"} /\ ~Wrote)

\* C6: the idx1 table has one entry per frame chunk written, its first offset
\* is 0, and the offsets increase strictly.
C6_IndexOffsetsIncrease ==
    WroteAll =>
        LET first == TagIndex("idx1") + 2
            n     == (Len(out.data) + 1 - first) \div 4
        IN  /\ n = Cardinality(FrameChunks)
            /\ n = frameCount
            /\ IdxOffsetAt(first, 1) = W(0)
            /\ \A k \in 1..(n - 1) :
                   WLess(IdxOffsetAt(first, k), IdxOffsetAt(first, k + 1))

\* C7: the number of "00db" frame chunks, the total-frames field of avih, the
\* length field of strh and the number of idx1 entries all equal
\* ceil(N / (R / F)) for N >= 1 samples at sample rate R.
C7_FrameCountIsCeiling ==
    (WroteAll /\ Len(wav.samples) >= 1) =>
        /\ Cardinality(FrameChunks) = ExactFrames
        /\ FieldAt(WAdd(TagAt("avih"), 8 + 16)) = W(ExactFrames)
        /\ FieldAt(WAdd(TagAt("strh"), 8 + 32)) = W(ExactFrames)
        /\ Len(IdxOffsets) = ExactFrames

\* C8: the movi list size field equals the offset at which the idx1 chunk
\* starts, minus the offset of the size field, minus 4.
C8_MoviSizeIsListLength ==
    WroteAll =>
        FieldAt(WAdd(TagAt("movi"), -4))
            = WAdd(WSub(TagAt("idx1"), WAdd(TagAt("movi"), -4)), -4)

\* C9: a run in which a write failed does not go on to the index and never
\* ends reporting success.
C9_WriteFailureAborts ==
    out.fail => (pc # "idx1" /\ ~Wrote)

\* C10: with channelCount >= 1, every decoded sample lies in [-1, 1], the
\* sample of every whole frame of the data chunk is the sum of its channel
\* values over 32768 * channelCount, clamped, and a stereo frame (v, -v)
\* decodes to 0.
C10_DownmixIsClampedMean ==
    channels >= 1 =>
        \A k \in 1..Len(samples) :
            /\ samples[k].den > 0
            /\ 0 - samples[k].den <= samples[k].num
            /\ samples[k].num <= samples[k].den
            /\ (desc.cut < 0 /\ k <= WholeFrames(desc)) =>
                  /\ samples[k] = RefSample(FrameSum(desc, k), channels)
                  /\ (channels = 2 /\ desc.pcm[2 * k - 1] = 0 - desc.pcm[2 * k]) =>
                        samples[k].num = 0

\* C10 witness: readWav has returned a stereo file whose frames (10000, -10000)
\* and (32767, 32767) decoded to 0 and 65534 / 65536
C10_Witness ==
    /\ pc = "writeAvi"
    /\ wav.numChannels = 2
    /\ Len(wav.samples) = 2
    /\ wav.samples[1] = [num |-> 0, den |-> 65536]
    /\ wav.samples[2] = [num |-> 65534, den |-> 65536]
\* a whole file that holds an unknown chunk between its fmt and its data chunk
ListBetween == desc.cut < 0 /\ desc.order = <<"fmt", "LIST", "data">>

\* the offset of the header of the data chunk in such a file
DataHeaderAt(d) == 12 + Len(FmtChunk(d)) + Len(ListChunk(d))

\* C11: with an unknown chunk of odd or even length between fmt and data, the
\* skip leaves the stream at the header of the data chunk (chunkSize bytes and
\* the padding byte of an odd chunk were passed), raw holds the 16-bit values
\* of the data chunk, and for a data chunk of whole frames the audio returned
\* is that of the data chunk alone.
C11_UnknownChunkSkipped ==
    ListBetween =>
        /\ (pc = "chunkLoop" /\ fmtFound /\ ~dataFound /\ in.pos > 12 + Len(FmtChunk(desc))) =>
              /\ chunkSize = desc.listLen
              /\ ~in.fail
              /\ in.pos = DataHeaderAt(desc)
              /\ SubSeq(file, in.pos + 1, in.pos + 4) = DATA
        /\ pc = "decode" =>
              /\ chunkSize = desc.dataLen
              /\ raw = SubSeq(desc.pcm, 1, desc.dataLen \div 2)
        /\ (pc = "writeAvi" /\ desc.channels >= 1
                /\ desc.dataLen % (desc.channels * 2) = 0) =>
              wav = [sampleRate |-> desc.rate, numChannels |-> desc.channels,
                     samples |-> RefSamples(desc)]

\* an unknown chunk of three bytes was skipped and the stereo data chunk behind
\* it decoded to its two frames
C11_Witness ==
    /\ ListBetween
    /\ desc.listLen = 3
    /\ pc = "writeAvi"
    /\ wav.numChannels = 2
    /\ wav.samples = RefSamples(desc)
    /\ Len(wav.samples) = 2

\* C12: a file whose first four bytes are not "RIFF" fails with NotARiffFile,
\* one whose bytes 8..11 are not "WAVE" fails with NotAWaveFile, and after any
\* failure of readWav the output file has not been opened.
C12_MagicChecked ==
    /\ (argc = 3 /\ pc \notin {"main", "readWav"} /\ error # "OpenInput") =>
          /\ (Len(file) >= 4 /\ SubSeq(file, 1, 4) # RIFF) =>
                (Failed /\ error = "NotARiffFile")
          /\ (Len(file) >= 12 /\ SubSeq(file, 1, 4) = RIFF /\ SubSeq(file, 9, 12) # WAVE) =>
                (Failed /\ error = "NotAWaveFile")
    /\ error \in ReadWavErrors => (Failed /\ out = ClosedOut)

\* a file that starts with "RIFF" and goes on with another form type was refused
C12_Witness ==
    /\ Len(file) >= 12
    /\ SubSeq(file, 1, 4) = RIFF
    /\ SubSeq(file, 9, 12) # WAVE
    /\ Failed
    /\ error = "NotAWaveFile"
    /\ out = ClosedOut

\* a whole 16-bit PCM file with a fmt chunk and a data chunk of no bytes
EmptyData ==
    /\ desc.cut < 0 /\ desc.magic = "ok"
    /\ desc.af = 1 /\ desc.bits = 16
    /\ \E a \in 1..Len(desc.order) : desc.order[a] = "fmt"
    /\ \E a \in 1..Len(desc.order) : desc.order[a] = "data"
    /\ desc.dataLen = 0

\* C13: a data chunk with chunkSize = 0 decodes to no samples without an
\* error of readWav, writeAvi then fails with EmptyAudio, and the output file
\* is never opened (whatever the fmt chunk declares as channels and rate).
\* Runs in which main was not given two file names or a file cannot be opened
\* end otherwise.
C13_EmptyDataIsEmptyAudio ==
    EmptyData =>
        /\ error \notin ReadWavErrors
        /\ pc # "crashed"
        /\ samples = <<>>
        /\ out = ClosedOut
        /\ pc \notin {"frames", "idx1"}
        /\ (pc = "exit" /\ error \notin {"Usage", "OpenInput", "OpenOutput"}) =>
              (exitCode = 1 /\ error = "EmptyAudio" /\ wav.samples = <<>> /\ frameCount = 0)

\* the chunk kind k is among the chunks of the file
Has(k) == \E a \in 1..Len(desc.order) : desc.order[a] = k

\* a whole 16-bit PCM file
WholePcm == desc.cut < 0 /\ desc.magic = "ok" /\ desc.af = 1 /\ desc.bits = 16

\* C14: the chunk loop stops once a fmt and a data chunk have been seen (a
\* chunk behind them is not read), audio is returned only when both have been
\* seen, and a file whose chunks end without both makes readWav fail with
\* MissingChunk.
C14_LoopStopsOrMissingChunk ==
    WholePcm =>
        /\ pc \in {"writeAvi", "frames", "idx1"} => (fmtFound /\ dataFound)
        /\ (fmtFound /\ dataFound /\ pc # "decode") =>
              in.pos <= 12 + Len(Chunks(desc, SelectSeq(desc.order, LAMBDA k : k # "LIST")))
                           + (IF desc.order[1] = "LIST" \/ desc.order[2] = "LIST"
                              THEN Len(ListChunk(desc)) ELSE 0)
        /\ (~(Has("fmt") /\ Has("data")) /\ pc = "exit"
                /\ error \notin {"Usage", "OpenInput"}) =>
              (exitCode = 1 /\ error = "MissingChunk")

\* C15: once the fmt chunk of a whole file has been read, readWav has failed
\* with UnsupportedFormat if its format code is not 1 or its bits per sample
\* are not 16; otherwise the chunk is accepted: no such failure, its fields
\* are taken over, and behind a fmt chunk with extra bytes the data chunk is
\* found and read.
C15_FormatChecked ==
    (desc.cut < 0 /\ desc.magic = "ok" /\ fmtFound) =>
        /\ (desc.af # 1 \/ desc.bits # 16) => (Failed /\ error = "UnsupportedFormat")
        /\ (desc.af = 1 /\ desc.bits = 16) =>
              /\ error # "UnsupportedFormat"
              /\ channels = desc.channels
              /\ sampleRate = desc.rate
              /\ bitsPerSample = 16
              /\ (desc.order = <<"fmt", "data">> /\ pc = "chunkLoop" /\ ~dataFound) =>
                    in.pos = 12 + Len(FmtChunk(desc))
              /\ (desc.order = <<"fmt", "data">> /\ pc = "decode") =>
                    (chunkSize = desc.dataLen /\ raw = SubSeq(desc.pcm, 1, desc.dataLen \div 2))

\* a fmt chunk of 19 bytes (and its padding byte) was accepted and the data
\* chunk behind it decoded
C15_Witness ==
    /\ desc.cut < 0
    /\ desc.extra = 3
    /\ desc.af = 1 /\ desc.bits = 16
    /\ pc = "writeAvi"
    /\ Len(wav.samples) = 2
    /\ wav.samples = RefSamples(desc)

\* C16: main returns 0 or 1; it returns 1 when it was not given two file
\* names and whenever an exception was caught, and it returns 0 only when
\* decoding completed (both chunks seen, no read came up short, some samples)
\* and the container was written without a failed write.
C16_ExitCodes ==
    pc = "exit" =>
        /\ exitCode \in {0, 1}
        /\ (argc # 3 \/ error # "none") => exitCode = 1
        /\ exitCode = 0 =>
              /\ argc = 3 /\ error = "none"
              /\ fmtFound /\ dataFound /\ ~shortRead
              /\ Len(wav.samples) >= 1
              /\ ~out.fail

\* the size declared for the chunk or list whose tag t follows its size field
\* (a list) or precedes it (a chunk)
ListSize(t) == FieldAt(WAdd(TagAt(t), -4))

ChunkSize(t) == FieldAt(WAdd(TagAt(t), 4))

\* the bytes written from offset a up to the "LIST" of the movi list
UpToMovi(a) == WSub(WAdd(TagAt("movi"), -8), a)

\* C17: in the written file the sizes declared for avih, strh, strf, LIST strl
\* and LIST hdrl equal the bytes written between the size field and the start
\* of the next sibling chunk.
C17_HeaderSizesMatch ==
    WroteAll =>
        /\ ChunkSize("avih") = W(56)
        /\ ChunkSize("avih") = WSub(WAdd(TagAt("strl"), -8), WAdd(TagAt("avih"), 8))
        /\ ChunkSize("strh") = W(56)
        /\ ChunkSize("strh") = WSub(TagAt("strf"), WAdd(TagAt("strh"), 8))
        /\ ChunkSize("strf") = W(40)
        /\ ChunkSize("strf") = UpToMovi(WAdd(TagAt("strf"), 8))
        /\ ListSize("strl") = UpToMovi(TagAt("strl"))
        /\ ListSize("hdrl") = UpToMovi(TagAt("hdrl"))

(***************************************************************************)
(* C18.  For every frame index i and every column x the renderer plots,    *)
(* the sample index it plots is floor(i * samplesPerFrame +                *)
(* samplesPerFrame * x / width) with samplesPerFrame = sampleRate / fps    *)
(* exact, that is floor((i * sampleRate * width + sampleRate * x) / (fps * *)
(* width)): the window start is not truncated before the column offset is  *)
(* added.                                                                  *)
(***************************************************************************)
\* the frames written so far, as <<frameIndex, startSample, columns plotted>>
Plots == { out.data[k].plot : k \in { j \in 1..Len(out.data) : out.data[j].kind = "pixels" } }

C18_SampleIndexUntruncated ==
    \A p \in Plots :
        \A x \in 0..(p[3] - 1) :
            SampleIndex(p[2], x, wav.sampleRate)
                = (p[1] * wav.sampleRate * width + wav.sampleRate * x) \div (fps * width)

(***************************************************************************)
(* C19.  drawPixel leaves the frame buffer as it was for every request     *)
(* with x < 0, x >= width, y < 0 or y >= height; for a request in range    *)
(* it changes nothing but the three bytes at (height - 1 - y) * rowStride  *)
(* + 3 * x, which become b, g, r; and it stores no byte behind the end of  *)
(* the buffer.                                                             *)
(***************************************************************************)
\* byte index of f
ByteAt(f, index) == IF \E e \in f : e[1] = index THEN (CHOOSE e \in f : e[1] = index)[2] ELSE 0

C19_DrawPixelInBounds ==
    (pc = "drawPixel" /\ request.called) =>
        LET at == (height - 1 - request.y) * rowStride + 3 * request.x
        IN  /\ \A e \in frame : e[1] < frameDataSize
            /\ IF request.x < 0 \/ request.x >= width \/ request.y < 0 \/ request.y >= height
               THEN frame = before
               ELSE /\ ByteAt(frame, at) = request.b
                    /\ ByteAt(frame, at + 1) = request.g
                    /\ ByteAt(frame, at + 2) = request.r
                    /\ \A e \in frame \cup before :
                           e[1] \notin at..(at + 2) => ByteAt(frame, e[1]) = ByteAt(before, e[1])

(***************************************************************************)
(* C20.  The renderer stops early (a column's sample index is at or above  *)
(* the number of samples) only in the last frame, frameCount - 1: every    *)
(* earlier frame plots all width columns, and the last frame plots at      *)
(* least column 0.                                                         *)
(***************************************************************************)
C20_EarlyStopOnlyInLastFrame ==
    \A p \in Plots :
        /\ p[1] < frameCount - 1 => p[3] = width
        /\ p[1] = frameCount - 1 => p[3] >= 1

(***************************************************************************)
(* C21.  No 32-bit field derived from stream positions wraps around modulo *)
(* 2^32: every offset of the idx1 table is the distance of its frame chunk *)
(* from the movi-data start, the movi size is the number of bytes from the *)
(* "movi" tag to the idx1 chunk, and the RIFF size is the file length      *)
(* minus riffSizePos minus 4, for every frame count.                       *)
(***************************************************************************)
\* the byte offset of frame chunk k = 1, 2, ...: three items a chunk, the
\* first one behind the "movi" tag at item first
FrameChunkAt(first, k) == out.data[first + 3 * (k - 1)].at

C21_NoWraparound ==
    WroteAll =>
        LET first == TagIndex("idx1") + 2
            n     == (Len(out.data) + 1 - first) \div 4
            movi  == TagIndex("movi")
            start == WAdd(out.data[movi].at, 4)
        IN  /\ \A k \in 1..n :
                   IdxOffsetAt(first, k) = WSub(FrameChunkAt(movi + 1, k), start)
            /\ FieldAt(WAdd(TagAt("movi"), -4)) = WSub(TagAt("idx1"), TagAt("movi"))
            /\ FieldAt(W(4)) = WAdd(WSub(out.size, riffSizePos), -4)

(***************************************************************************)
(* C22.  The pixel payload written for frame i depends on the decoded      *)
(* audio and on i only: it is the centre line and the waveform of frame i  *)
(* on a buffer of zeros, so no pixel of an earlier frame is in it, and     *)
(* every payload is rowStride * height bytes long.                         *)
(***************************************************************************)
\* the pixels items written so far
Payloads == { k \in 1..Len(out.data) : out.data[k].kind = "pixels" }

C22_PayloadOfFrameOnly ==
    \A k \in Payloads :
        LET p == out.data[k].plot
        IN  /\ p[4] = Render({}, p[1])
            /\ out.data[k].size = rowStride * height
            /\ \A e \in p[4] : e[1] \in 0..(rowStride * height - 1)

\* C22, its case: two frames in a row are written, and the earlier one has a
\* pixel where the later one has none
C22_Witness ==
    \E k \in Payloads, m \in Payloads :
        /\ out.data[m].plot[1] = out.data[k].plot[1] + 1
        /\ \E e \in out.data[k].plot[4] :
               \A d \in out.data[m].plot[4] : d[1] # e[1]

(***************************************************************************)
(* C23.  In the circular-buffer delay, with maxDelaySamples >= 1 and       *)
(* delaySamples <= maxDelaySamples, the write index and the read index are *)
(* in [0, maxDelaySamples) at every step, and the delayed sample read at   *)
(* step n is input[n - delaySamples] when n >= delaySamples and 0          *)
(* otherwise: the delayedSample of applySimpleDelay, also after the write  *)
(* index has wrapped around.                                               *)
(***************************************************************************)
C23_CircularDelayIsArrayDelay ==
    (pc = "delayLoop" /\ maxDelaySamples >= 1 /\ delaySamples <= maxDelaySamples) =>
        /\ writeIndex \in 0..(maxDelaySamples - 1)
        /\ stepN >= 1 =>
              /\ readIndex \in 0..(maxDelaySamples - 1)
              /\ delayed = delayedSample(input, stepN - 1, delaySamples)


====
